---- MODULE Spec2Model ----
(***************************************************************************)
(* Model of the churn-prediction repository: the prediction HTTP service   *)
(* (inference/main.py, inference/schemas.py), the two object-storage model *)
(* loaders (inference/utils.py, inference/fastapi-inference/gcs_loader.py) *)
(* and the training configuration validation (trainer/validation.py).      *)
(*                                                                         *)
(* Text is modelled as a sequence of one-character strings, so that prefix *)
(* tests, splitting and path normalisation are computed, not assumed.      *)
(***************************************************************************)
EXTENDS Integers, Sequences, FiniteSets, TLC

(***************************************************************************)
(* Bounds of the model.                                                    *)
(***************************************************************************)
\* longest object name / model path, in characters
MaxLen == 3
\* most objects in a bucket
MaxObjects == 2

\* the characters object names and paths are built from
Chars == {"a", "/"}

NoValue == "None"

\* an optional value: None, or the value held
None == <<>>
Some(x) == <<x>>

(***************************************************************************)
(* Text helpers.                                                           *)
(***************************************************************************)
Strs(n) == UNION {[1..k -> Chars] : k \in 0..n}

\* str.startswith
StartsWith(s, p) == Len(p) <= Len(s) /\ SubSeq(s, 1, Len(p)) = p

\* str.endswith("/")
EndsWithSlash(s) == Len(s) > 0 /\ s[Len(s)] = "/"

\* s[n:]
DropFirst(s, n) == SubSeq(s, n + 1, Len(s))

\* byte order of the characters ("/" is 0x2F, letters follow)
CharRank(c) ==
    IF c = "/" THEN 0 ELSE IF c = ":" THEN 1 ELSE IF c = "a" THEN 2
    ELSE IF c = "g" THEN 3 ELSE IF c = "model.json" THEN 4 ELSE 5

\* lexicographic order of object names, the order list_blobs returns them in
RECURSIVE NameLess(_, _)
NameLess(s, t) ==
    IF Len(t) = 0 THEN FALSE
    ELSE IF Len(s) = 0 THEN TRUE
    ELSE IF s[1] # t[1] THEN CharRank(s[1]) < CharRank(t[1])
    ELSE NameLess(Tail(s), Tail(t))

\* str.split("/"): the pieces between separators, empty pieces included
RECURSIVE SplitSlash(_)
SplitSlash(s) ==
    IF \A i \in 1..Len(s) : s[i] # "/" THEN <<s>>
    ELSE LET i == CHOOSE j \in 1..Len(s) : s[j] = "/" /\ \A k \in 1..(j - 1) : s[k] # "/"
         IN  <<SubSeq(s, 1, i - 1)>> \o SplitSlash(DropFirst(s, i))

\* str.split("/")[-1]
LastSegment(s) == LET p == SplitSlash(s) IN p[Len(p)]

(***************************************************************************)
(* pathlib.PurePosixPath: a root ("", "/", or "//" for exactly two leading *)
(* slashes) and the non-empty components.                                  *)
(***************************************************************************)
LeadingSlashes(s) ==
    IF \A i \in 1..Len(s) : s[i] = "/" THEN Len(s)
    ELSE (CHOOSE j \in 1..Len(s) : s[j] # "/" /\ \A k \in 1..(j - 1) : s[k] = "/") - 1

PathRoot(s) ==
    LET n == LeadingSlashes(s)
    IN  IF n = 0 THEN "" ELSE IF n = 2 THEN "//" ELSE "/"

PathParts(s) == SelectSeq(SplitSlash(s), LAMBDA c : c # <<>>)

Path(s) == [root |-> PathRoot(s), parts |-> PathParts(s)]

IsPrefixSeq(p, s) == Len(p) <= Len(s) /\ SubSeq(s, 1, Len(p)) = p

\* PurePath.relative_to: defined only when the roots agree and other's
\* components lead self's components; otherwise ValueError
CanRelativeTo(self, other) ==
    self.root = other.root /\ IsPrefixSeq(other.parts, self.parts)

RelativeTo(self, other) ==
    [root |-> "", parts |-> DropFirst(self.parts, Len(other.parts))]

\* PurePath.__truediv__: an anchored right operand replaces the left one
JoinPath(base, rel) ==
    IF rel.root # "" THEN rel
    ELSE [root |-> base.root, parts |-> base.parts \o rel.parts]

ParentPath(p) ==
    IF Len(p.parts) = 0 THEN p
    ELSE [root |-> p.root, parts |-> SubSeq(p.parts, 1, Len(p.parts) - 1)]

\* p itself and every directory above it
Ancestors(p) == {[root |-> p.root, parts |-> SubSeq(p.parts, 1, k)] : k \in 0..Len(p.parts)}

(***************************************************************************)
(* Object storage: one bucket exists, holding a set of object names.  An   *)
(* object's content is identified by its name.                             *)
(***************************************************************************)
BucketName == <<"a">>
BucketNames == {BucketName, <<"a", "a">>}

\* the file name load_model looks for, kept as one token of text
ModelJson == <<"model.json">>

\* object names: any non-empty text, or a text followed by the file name
ObjectNames == (Strs(MaxLen) \ {<<>>}) \cup {s \o ModelJson : s \in Strs(MaxLen - 1)}

RECURSIVE SubsetsUpTo(_, _)
SubsetsUpTo(S, k) ==
    IF k = 0 THEN {{}}
    ELSE LET prev == SubsetsUpTo(S, k - 1)
         IN  prev \cup {T \cup {x} : T \in prev, x \in S}

BucketContents == SubsetsUpTo(ObjectNames, MaxObjects)

RECURSIVE SortNames(_)
SortNames(S) ==
    IF S = {} THEN <<>>
    ELSE LET m == CHOOSE x \in S : \A y \in S \ {x} : NameLess(x, y)
         IN  <<m>> \o SortNames(S \ {m})

\* bucket.list_blobs(prefix=...): the names that start with the prefix text,
\* in name order
ListBlobs(objects, prefix) == SortNames({n \in objects : StartsWith(n, prefix)})

(***************************************************************************)
(* Local file system: the directories that exist and the files written,    *)
(* each file remembering the object it was downloaded from.                *)
(***************************************************************************)
CwdPath == [root |-> "", parts |-> <<>>]
RootPaths == {CwdPath, [root |-> "/", parts |-> <<>>], [root |-> "//", parts |-> <<>>]}
EmptyFs == [dirs |-> RootPaths, files |-> {}]

IsFile(fs, p) == \E f \in fs.files : f.path = p
IsDir(fs, p) == p \in fs.dirs

\* Path.mkdir(parents=True, exist_ok=True): fails when the directory or one
\* of its parents exists as a regular file
MkdirError(fs, d) ==
    IF IsFile(fs, d) THEN "FileExistsError"
    ELSE IF \E a \in Ancestors(d) : IsFile(fs, a) THEN "NotADirectoryError"
    ELSE NoValue

Mkdir(fs, d) == [fs EXCEPT !.dirs = @ \cup Ancestors(d)]

\* blob.download_to_filename: open(filename, "wb") and write the content
WriteError(fs, p) ==
    IF IsDir(fs, p) THEN "IsADirectoryError"
    ELSE IF ~IsDir(fs, ParentPath(p)) THEN "FileNotFoundError"
    ELSE NoValue

WriteFile(fs, p, blob) ==
    [fs EXCEPT !.files = {f \in @ : f.path # p} \cup {[path |-> p, blob |-> blob]}]

Returned(fs) == [status |-> "returned", error |-> NoValue, fs |-> fs]
Raised(e, fs) == [status |-> "raised", error |-> e, fs |-> fs]

\* the loop body shared by both loaders once the local file path is known:
\* local_file.parent.mkdir(parents=True, exist_ok=True); download_to_filename
StoreBlob(fs, local_file, blob) ==
    IF MkdirError(fs, ParentPath(local_file)) # NoValue
    THEN Raised(MkdirError(fs, ParentPath(local_file)), fs)
    ELSE LET made == Mkdir(fs, ParentPath(local_file))
         IN  IF WriteError(made, local_file) # NoValue
             THEN Raised(WriteError(made, local_file), made)
             ELSE Returned(WriteFile(made, local_file, blob))

(***************************************************************************)
(* inference/utils.py: the boosted-tree loader.                            *)
(***************************************************************************)
\* local_dir = "model"
ModelDir == [root |-> "", parts |-> << <<"model">> >>]

\* Path(local_dir) / Path(blob.name).relative_to(model_path)
BoostedLocalFile(name, model_path, local_dir) ==
    JoinPath(local_dir, RelativeTo(Path(name), Path(model_path)))

BoostedRelativeOk(name, model_path) == CanRelativeTo(Path(name), Path(model_path))

RECURSIVE BoostedLoop(_, _, _, _)
BoostedLoop(blobs, fs, model_path, local_dir) ==
    IF blobs = <<>> THEN Returned(fs)
    ELSE IF EndsWithSlash(Head(blobs))
    THEN BoostedLoop(Tail(blobs), fs, model_path, local_dir)
    ELSE IF ~BoostedRelativeOk(Head(blobs), model_path)
    THEN Raised("ValueError", fs)
    ELSE LET r == StoreBlob(fs, BoostedLocalFile(Head(blobs), model_path, local_dir), Head(blobs))
         IN  IF r.status = "raised" THEN r
             ELSE BoostedLoop(Tail(blobs), r.fs, model_path, local_dir)

\* download_model_from_gcs(bucket_name, model_path, local_dir)
BoostedDownload(objects, bucket_name, model_path, local_dir, fs) ==
    IF MkdirError(fs, local_dir) # NoValue THEN Raised(MkdirError(fs, local_dir), fs)
    ELSE IF bucket_name # BucketName THEN Raised("NotFound", Mkdir(fs, local_dir))
    ELSE BoostedLoop(ListBlobs(objects, model_path), Mkdir(fs, local_dir), model_path, local_dir)

\* Path(model_dir) / "model.json"
ModelFile(model_dir) == [root |-> model_dir.root, parts |-> Append(model_dir.parts, ModelJson)]

\* load_model(model_dir): a Booster holding the content of model.json, or
\* FileNotFoundError when the file does not exist
LoadModel(fs, model_dir) ==
    IF ~IsFile(fs, ModelFile(model_dir)) THEN [status |-> "raised", error |-> "FileNotFoundError", model |-> None]
    ELSE [status |-> "returned", error |-> NoValue,
          model |-> Some([booster |-> (CHOOSE f \in fs.files : f.path = ModelFile(model_dir)).blob])]

(***************************************************************************)
(* inference/schemas.py: the request schema.  A JSON value of a field is   *)
(* absent, a string that is not a numeral, a string holding a numeral, or  *)
(* a number; validation converts numerals and numeric strings to the       *)
(* declared type and then applies the range constraints.                   *)
(***************************************************************************)
\* most rows in a batch request
MaxBatch == 2
\* probabilities are the multiples of 1/ProbDen in [0, 1]
ProbDen == 4

Missing == [kind |-> "missing", val |-> 0]
Text == [kind |-> "text", val |-> 0]
Num(n) == [kind |-> "num", val |-> n]
NumText(n) == [kind |-> "numtext", val |-> n]

FloatFields == {"f_0", "f_1", "f_2", "f_3", "f_4"}
MonthFields == {"calendar_month", "signup_month"}
Fields == FloatFields \cup {"months_since_signup", "is_first_month"} \cup MonthFields

\* the types float and int: a number, or a string that parses as one
Coercible(v) == v.kind \in {"num", "numtext"}

\* Field(ge=..., le=...)
InRange(v, lo, hi) == lo <= v.val /\ v.val <= hi

\* variant: is_first_month without its range constraint
FieldValidNoFlagRange(f, v) ==
    /\ Coercible(v)
    /\ f \in MonthFields => InRange(v, 1, 12)

FieldValid(f, v) ==
    /\ Coercible(v)
    /\ f \in MonthFields => InRange(v, 1, 12)
    /\ f = "is_first_month" => InRange(v, 0, 1)

\* PredictionInput validation of a JSON object
BodyValid(b) == \A f \in Fields : FieldValid(f, b[f])

\* the values a field takes in the requests sent
FieldValues(f) ==
    {Missing, Text} \cup
    (IF f \in MonthFields THEN {Num(0), Num(1), Num(12), Num(13), NumText(6), NumText(13)}
     ELSE IF f = "is_first_month" THEN {Num(-1), Num(0), Num(1), Num(2), NumText(1)}
     ELSE {Num(1), NumText(1)})

ValidBody == [f \in Fields |-> IF f = "is_first_month" THEN Num(0) ELSE Num(1)]
EmptyBody == [f \in Fields |-> Missing]

\* the request bodies sent: an empty object, a valid body, and every body
\* that departs from one of them in one field
Bodies ==
    {ValidBody, EmptyBody} \cup
    UNION {{[b EXCEPT ![f] = v] : b \in {ValidBody, EmptyBody}, v \in FieldValues(f)} : f \in Fields}

\* rows of batch requests
BatchBodies == {ValidBody, [ValidBody EXCEPT !["f_0"] = Text]}
Batches == UNION {[1..n -> BatchBodies] : n \in 0..MaxBatch}

\* the body of POST /predict/batch is declared List[PredictionInput]: a JSON
\* array whose every element validates
BatchValid(shape, rows) ==
    /\ shape = "list"
    /\ \A i \in 1..Len(rows) : BodyValid(rows[i])

(***************************************************************************)
(* inference/main.py: the prediction service.                              *)
(***************************************************************************)
VARIABLES
    objects,        \* names of the objects in the bucket
    fs,             \* local file system
    config,         \* config["gcs"]: bucket_name and model_path
    lifespan,       \* "not_run", "ok" or "failed": the startup event
    model,          \* global model
    model_version,  \* global model_version
    req,            \* the request last handled
    resp,           \* its response
    args,           \* arguments of the library call under way (loaders, load_config)
    ret,            \* its result, once it has returned or raised
    data,           \* content of each object in the bucket
    pc,             \* where the script under way stands
    trace,          \* the steps the script under way has taken
    threads         \* the requests being handled concurrently

vars == <<objects, fs, config, lifespan, model, model_version, req, resp, args, ret,
          data, pc, trace, threads>>
storageVars == <<objects, fs>>
globalVars == <<lifespan, model, model_version>>
callVars == <<args, ret>>
scriptVars == <<data, pc, trace, threads>>

\* content of the objects that were in the bucket before any publish
OldContent == "old"

\* no script under way, no request in flight
NoScript ==
    /\ data = [n \in objects |-> OldContent]
    /\ pc = "idle"
    /\ trace = <<>>
    /\ threads = <<>>

NoArgs == [fn |-> NoValue]
NoRet == [status |-> "none", error |-> NoValue]

\* body and payload are sequences: the rows sent, the records answered
NoRequest == [endpoint |-> NoValue, shape |-> NoValue, body |-> <<>>]
NoResponse == [code |-> 0, detail |-> NoValue, payload |-> <<>>, invoked |-> FALSE]

\* error texts a scoring call may raise with
ErrorTexts == {"feature_names mismatch", "bad DMatrix"}

\* what model.predict(dmatrix) does for n rows: raises, or gives n
\* probabilities
Raises(e) == [raised |-> TRUE, error |-> e, proba |-> <<>>]
Gives(ps) == [raised |-> FALSE, error |-> NoValue, proba |-> ps]
ScoreOutcomes(n) == {Raises(e) : e \in ErrorTexts} \cup {Gives(ps) : ps \in [1..n -> 0..ProbDen]}

\* variant: strict comparison
ThresholdStrict(p) == IF 2 * p > ProbDen THEN 1 ELSE 0

\* int(prediction_proba >= 0.5)
Threshold(p) == IF 2 * p >= ProbDen THEN 1 ELSE 0

\* PredictionOutput(churn_probability=..., churn_prediction=...,
\* model_version=model_version)
PredictionOutput(p, version) ==
    [churn_probability |-> p, churn_prediction |-> Threshold(p), model_version |-> version]

HttpError(status, text, called) ==
    [code |-> status, detail |-> text, payload |-> <<>>, invoked |-> called]
HttpOk(body, called) ==
    [code |-> 200, detail |-> NoValue, payload |-> body, invoked |-> called]

ValidationError == HttpError(422, "validation error", FALSE)

\* variant: the exception is logged and swallowed
StartupStatusSwallowed(loaded) == "ok"

\* the status the startup event leaves: the exception is re-raised, and the
\* application does not come up
StartupStatus(loaded) == IF loaded THEN "ok" ELSE "failed"

\* startup_event()
StartupEvent ==
    /\ lifespan = "not_run"
    /\ LET d == BoostedDownload(objects, config.bucket_name, config.model_path, ModelDir, fs)
           l == LoadModel(d.fs, ModelDir)
           loaded == d.status = "returned" /\ l.status = "returned"
       IN  /\ fs' = d.fs
           /\ lifespan' = StartupStatus(loaded)
           /\ model' = IF loaded THEN l.model ELSE model
           /\ model_version' = IF loaded THEN Some(LastSegment(config.model_path)) ELSE model_version
    /\ UNCHANGED <<objects, config, req, resp, callVars, scriptVars>>

\* the application answers requests unless its startup failed
Serving == lifespan # "failed"

\* GET /
RootResponse == HttpOk(<<[message |-> "Churn Prediction API", health |-> "/health", docs |-> "/docs"]>>, FALSE)

Root ==
    /\ Serving
    /\ req' = [endpoint |-> "/", shape |-> NoValue, body |-> <<>>]
    /\ resp' = RootResponse
    /\ UNCHANGED <<storageVars, config, globalVars, callVars, scriptVars>>

\* variant: the status does not look at the model
HealthResponseAlwaysHealthy(m, version) ==
    HttpOk(<<[status |-> "healthy",
              model_loaded |-> m # None,
              model_version |-> version]>>, FALSE)

\* GET /health
HealthResponse(m, version) ==
    HttpOk(<<[status |-> IF m # None THEN "healthy" ELSE "unhealthy",
              model_loaded |-> m # None,
              model_version |-> version]>>, FALSE)

Health ==
    /\ Serving
    /\ req' = [endpoint |-> "/health", shape |-> NoValue, body |-> <<>>]
    /\ resp' = HealthResponse(model, model_version)
    /\ UNCHANGED <<storageVars, config, globalVars, callVars, scriptVars>>

\* variant: no check that a model is loaded; model.predict fails on None
PredictHandlerUnchecked(m, version, outcome) ==
    IF m = None THEN HttpError(500, "'NoneType' object has no attribute 'predict'", FALSE)
    ELSE IF outcome.raised THEN HttpError(500, outcome.error, TRUE)
    ELSE IF version = None THEN HttpError(500, "validation error", TRUE)
    ELSE HttpOk(<<PredictionOutput(outcome.proba[1], version)>>, TRUE)

\* predict(input_data), entered once the request body validated
PredictHandler(m, version, outcome) ==
    IF m = None THEN HttpError(503, "Model not loaded", FALSE)
    ELSE IF outcome.raised THEN HttpError(500, outcome.error, TRUE)
    ELSE IF version = None THEN HttpError(500, "validation error", TRUE)
    ELSE HttpOk(<<PredictionOutput(outcome.proba[1], version)>>, TRUE)

\* POST /predict: the framework validates the body against PredictionInput
\* before it calls the handler
PredictResponses(b, m, version) ==
    IF BodyValid(b) THEN {PredictHandler(m, version, outcome) : outcome \in ScoreOutcomes(1)}
    ELSE {ValidationError}

Predict ==
    /\ Serving
    /\ \E b \in Bodies :
          /\ req' = [endpoint |-> "/predict", shape |-> "object", body |-> <<b>>]
          /\ resp' \in PredictResponses(b, model, model_version)
    /\ UNCHANGED <<storageVars, config, globalVars, callVars, scriptVars>>

\* variant: the handler answers 500 without the error text
BatchHandlerNoDetail(m, version, outcome) ==
    IF m = None THEN HttpError(503, "Model not loaded", FALSE)
    ELSE IF outcome.raised THEN HttpError(500, "Internal Server Error", TRUE)
    ELSE IF version = None /\ outcome.proba # <<>> THEN HttpError(500, "validation error", TRUE)
    ELSE HttpOk([i \in 1..Len(outcome.proba) |-> PredictionOutput(outcome.proba[i], version)], TRUE)

\* predict_batch(inputs), entered once the request body validated
BatchHandler(m, version, outcome) ==
    IF m = None THEN HttpError(503, "Model not loaded", FALSE)
    ELSE IF outcome.raised THEN HttpError(500, outcome.error, TRUE)
    ELSE IF version = None /\ outcome.proba # <<>> THEN HttpError(500, "validation error", TRUE)
    ELSE HttpOk([i \in 1..Len(outcome.proba) |-> PredictionOutput(outcome.proba[i], version)], TRUE)

\* POST /predict/batch
BatchResponses(shape, rows, m, version) ==
    IF BatchValid(shape, rows)
    THEN {BatchHandler(m, version, outcome) : outcome \in ScoreOutcomes(Len(rows))}
    ELSE {ValidationError}

PredictBatch ==
    /\ Serving
    /\ \E shape \in {"list", "instances"}, rows \in Batches :
          /\ req' = [endpoint |-> "/predict/batch", shape |-> shape, body |-> rows]
          /\ resp' \in BatchResponses(shape, rows, model, model_version)
    /\ UNCHANGED <<storageVars, config, globalVars, callVars, scriptVars>>

\* the bucket contents and the configurations the service is started with
ServiceBuckets ==
    { {},
      {<<"a", "/", "model.json">>, <<"a", "/">>},
      {<<"a", "/", "model.json">>, <<"a", "a">>},
      {<<"a", "/", "a">>} }
ServiceConfigs ==
    {[bucket_name |-> BucketName, model_path |-> p] : p \in {<<"a">>, <<"a", "/">>}}
    \cup {[bucket_name |-> <<"a", "a">>, model_path |-> <<"a">>]}

Init ==
    /\ objects \in ServiceBuckets
    /\ fs = EmptyFs
    /\ config \in ServiceConfigs
    /\ lifespan = "not_run"
    /\ model = None
    /\ model_version = None
    /\ req = NoRequest
    /\ resp = NoResponse
    /\ NoScript
    /\ args = NoArgs
    /\ ret = NoRet

Next == StartupEvent \/ Root \/ Health \/ Predict \/ PredictBatch

Spec == Init /\ [][Next]_vars

(***************************************************************************)
(* Properties of the prediction service.                                   *)
(***************************************************************************)
\* a request was handled in this step
Handled == <<req, resp>>' # <<req, resp>>

\* the body satisfies the Prediction Request schema as documented: every
\* field present, a number, and within its range
SatisfiesSchema(b) ==
    /\ \A f \in Fields : b[f].kind = "num"
    /\ \A f \in MonthFields : 1 <= b[f].val /\ b[f].val <= 12
    /\ b["is_first_month"].val \in {0, 1}

\* C1: a POST /predict whose body satisfies the schema is answered 503 when
\* no model is loaded, and is answered 422 in no state of the service.
C1_ValidBodyNever422 ==
    [][(Handled /\ req'.endpoint = "/predict" /\ SatisfiesSchema(req'.body[1]))
         => /\ resp'.code # 422
            /\ model = None => resp'.code = 503]_vars

C1_Witness ==
    /\ req.endpoint = "/predict"
    /\ SatisfiesSchema(req.body[1])
    /\ model = None
    /\ resp.code = 503

\* a field is absent, is not a JSON number, or is out of its range
OutOfRange(f, v) ==
    \/ f \in MonthFields /\ (v.val < 1 \/ v.val > 12)
    \/ f = "is_first_month" /\ v.val \notin {0, 1}
HasFault(b) ==
    \E f \in Fields : b[f].kind \in {"missing", "text", "numtext"} \/ OutOfRange(f, b[f])

\* a field is absent, is neither a number nor a string holding a numeral,
\* or its value is out of range
HasRejectedFault(b) ==
    \E f \in Fields : b[f].kind \in {"missing", "text"} \/ OutOfRange(f, b[f])

C3_BothShapesAccepted ==
    (/\ req.endpoint = "/predict/batch"
     /\ Len(req.body) >= 1
     /\ \A i \in 1..Len(req.body) : SatisfiesSchema(req.body[i]))
        => resp.code # 422

\* C4: once the startup event has run, a request is answered only with the
\* model and version label set; a failed startup leaves no serving state.
C4_NoServingWithoutModelAfterStartup ==
    /\ [](lifespan = "ok" => (model # None /\ model_version # None))
    /\ [](lifespan = "failed" => ~ENABLED (Root \/ Health \/ Predict \/ PredictBatch))
    /\ [][(Handled /\ lifespan # "not_run") => (lifespan = "ok" /\ model # None)]_vars

C4_Witness == lifespan = "failed" /\ model = None /\ model_version = None

\* C5: a scoring exception is answered 500 with the error text; the model
\* and version label are unchanged and the service goes on serving.
C5_ScoringFailureIsOneRequest ==
    /\ [][(Handled /\ resp'.code = 500)
            => /\ resp'.detail \in ErrorTexts
               /\ resp'.invoked
               /\ model' = model /\ model # None
               /\ model_version' = model_version
               /\ lifespan' = lifespan]_vars
    /\ [](resp.code = 500 => (Serving /\ ENABLED Predict /\ ENABLED PredictBatch))

C5_Witness ==
    /\ req.endpoint = "/predict/batch"
    /\ resp.code = 500
    /\ resp.detail \in ErrorTexts
    /\ model # None

\* C6: in a 200 response of POST /predict the decision is 1 exactly when the
\* probability is at least one half, and the version is the label set at
\* startup.
C6_DecisionMatchesThreshold ==
    (req.endpoint = "/predict" /\ resp.code = 200)
        => LET out == resp.payload[1]
           IN  /\ out.churn_prediction \in {0, 1}
               /\ out.churn_prediction = 1 <=> 2 * out.churn_probability >= ProbDen
               /\ out.model_version = model_version
               /\ model_version = Some(LastSegment(config.model_path))

C6_Witness ==
    /\ req.endpoint = "/predict"
    /\ resp.code = 200
    /\ 2 * resp.payload[1].churn_probability >= ProbDen
    /\ 2 * resp.payload[1].churn_probability <= ProbDen + 1
    /\ resp.payload[1].churn_prediction = 1

\* C7: GET /health is answered 200 in every serving state; status is
\* "healthy" exactly when model_loaded, model_loaded exactly when a model is
\* held, and model_version is present exactly when a model is loaded.
C7_HealthReflectsModel ==
    /\ [](Serving => ENABLED Health)
    /\ [][(Handled /\ req'.endpoint = "/health")
            => LET h == resp'.payload[1]
               IN  /\ resp'.code = 200
                   /\ h.status \in {"healthy", "unhealthy"}
                   /\ h.status = "healthy" <=> h.model_loaded
                   /\ h.model_loaded <=> model # None
                   /\ h.model_version # None <=> model # None]_vars

C7_Witness ==
    /\ req.endpoint = "/health"
    /\ resp.code = 200
    /\ resp.payload[1].status = "unhealthy"
    /\ lifespan = "not_run"

(***************************************************************************)
(* trainer/validation.py: load_config.  Fractions are the multiples of     *)
(* 1/FracDen, so 0.5 is FracDen/2 and 1.0 is FracDen.                      *)
(***************************************************************************)
\* half the denominator of the fractions
HalfDen == 10
FracDen == 2 * HalfDen
FracValues == (0 - 1)..(FracDen + 1)
SeedValues == {0 - 1, 0, 42}

\* Field(gt=0, lt=1)
FracInOpenUnit(v) == 0 < v /\ v < FracDen

\* DataConfig.validate_fraction: "Fraction should not exceed 0.5"
validate_fraction(v) == ~(2 * v > FracDen)

\* DataConfig(test_frac, val_frac, random_state)
DataConfigValid(d) ==
    /\ FracInOpenUnit(d.test_frac) /\ validate_fraction(d.test_frac)
    /\ FracInOpenUnit(d.val_frac) /\ validate_fraction(d.val_frac)
    /\ d.random_state >= 0

\* variant: a total of exactly 1.0 passes
validate_data_splits_strict(d) == ~(d.test_frac + d.val_frac > FracDen)

\* Config.validate_data_splits: total >= 1.0 is an error
validate_data_splits(d) == ~(d.test_frac + d.val_frac >= FracDen)

\* Config(**config_dict): the data section, and the other four sections
ConfigValid(c) ==
    /\ c.others_valid
    /\ DataConfigValid(c.data)
    /\ validate_data_splits(c.data)

\* load_config(config_path)
load_config(file) ==
    IF ~file.exists THEN [status |-> "raised", error |-> "FileNotFoundError"]
    ELSE IF ~ConfigValid(file) THEN [status |-> "raised", error |-> "ValidationError"]
    ELSE [status |-> "returned", error |-> NoValue]

ConfigFiles ==
    [fn : {"load_config"}, exists : BOOLEAN, others_valid : BOOLEAN,
     data : [test_frac : FracValues, val_frac : FracValues, random_state : SeedValues]]

InitConfig ==
    /\ args \in ConfigFiles
    /\ ret = NoRet
    /\ objects = {}
    /\ fs = EmptyFs
    /\ config = [bucket_name |-> BucketName, model_path |-> <<>>]
    /\ lifespan = "not_run"
    /\ model = None
    /\ model_version = None
    /\ req = NoRequest
    /\ resp = NoResponse
    /\ NoScript

LoadConfig ==
    /\ args.fn = "load_config"
    /\ ret = NoRet
    /\ ret' = load_config(args)
    /\ UNCHANGED <<storageVars, config, globalVars, req, resp, args, scriptVars>>

NextConfig == LoadConfig

SpecConfig == InitConfig /\ [][NextConfig]_vars

\* C8: with the file present and the rest of the configuration valid,
\* load_config succeeds exactly when 0 < test_frac <= 0.5, 0 < val_frac <= 0.5
\* and test_frac + val_frac < 1.0; a total of 1.0 or more, or a fraction
\* above 0.5, is a validation error whatever the rest holds.
C8_SplitFractionsAccepted ==
    (args.fn = "load_config" /\ ret # NoRet /\ args.exists)
        => LET t == args.data.test_frac
               v == args.data.val_frac
           IN  /\ (args.others_valid /\ args.data.random_state >= 0)
                    => (ret.status = "returned"
                          <=> (/\ 0 < t /\ 2 * t <= FracDen
                               /\ 0 < v /\ 2 * v <= FracDen
                               /\ t + v < FracDen))
               /\ (t + v >= FracDen \/ 2 * t > FracDen \/ 2 * v > FracDen)
                    => (ret.status = "raised" /\ ret.error = "ValidationError")

C8_Witness ==
    /\ args.fn = "load_config" /\ args.exists /\ args.others_valid
    /\ args.data.random_state >= 0
    /\ 0 < args.data.test_frac /\ 2 * args.data.test_frac <= FracDen
    /\ 0 < args.data.val_frac /\ 2 * args.data.val_frac <= FracDen
    /\ args.data.test_frac + args.data.val_frac >= FracDen
    /\ ret.status = "raised"

(***************************************************************************)
(* inference/utils.py download_model_from_gcs as a call of its own.        *)
(***************************************************************************)
ModelPaths == Strs(MaxLen) \cup {s \o ModelJson : s \in Strs(MaxLen - 1)}

InitBoosted ==
    /\ objects \in BucketContents
    /\ fs = EmptyFs
    /\ args \in [fn : {"download_model_from_gcs"}, bucket_name : BucketNames,
                 model_path : ModelPaths, local_dir : {ModelDir}]
    /\ ret = NoRet
    /\ config = [bucket_name |-> BucketName, model_path |-> <<>>]
    /\ lifespan = "not_run"
    /\ model = None
    /\ model_version = None
    /\ req = NoRequest
    /\ resp = NoResponse
    /\ NoScript

DownloadBoosted ==
    /\ args.fn = "download_model_from_gcs"
    /\ ret = NoRet
    /\ LET d == BoostedDownload(objects, args.bucket_name, args.model_path, args.local_dir, fs)
       IN  /\ fs' = d.fs
           /\ ret' = [status |-> d.status, error |-> d.error]
    /\ UNCHANGED <<objects, config, globalVars, req, resp, args, scriptVars>>

NextBoosted == DownloadBoosted

SpecBoosted == InitBoosted /\ [][NextBoosted]_vars

\* the local path the text of a relative name denotes under a directory
Under(dir, text) == [root |-> dir.root, parts |-> dir.parts \o PathParts(text)]

\* C9: for every bucket content and model_path the call returns, having
\* written every object the prefix listing returns whose name does not end
\* in "/" to local_dir/<name without the model_path prefix>, and nothing for
\* the directory markers.
C9_EveryListedObjectDownloaded ==
    (args.fn = "download_model_from_gcs" /\ args.bucket_name = BucketName /\ ret # NoRet)
        => /\ ret.status = "returned"
           /\ \A n \in objects :
                 StartsWith(n, args.model_path)
                    => IF EndsWithSlash(n) THEN \A f \in fs.files : f.blob # n
                       ELSE \E f \in fs.files :
                               /\ f.blob = n
                               /\ f.path = Under(args.local_dir, DropFirst(n, Len(args.model_path)))

(***************************************************************************)
(* inference/fastapi-inference/gcs_loader.py: the generic loader.          *)
(***************************************************************************)
Scheme == <<"g", "s", ":", "/", "/">>

\* str.replace(old, ""): every occurrence of old removed, left to right
RECURSIVE RemoveAll(_, _)
RemoveAll(s, old) ==
    IF s = <<>> THEN <<>>
    ELSE IF StartsWith(s, old) THEN RemoveAll(DropFirst(s, Len(old)), old)
    ELSE <<Head(s)>> \o RemoveAll(Tail(s), old)

\* str.split("/", 1)
SplitOnce(s) ==
    IF \A i \in 1..Len(s) : s[i] # "/" THEN <<s>>
    ELSE LET i == CHOOSE j \in 1..Len(s) : s[j] = "/" /\ \A k \in 1..(j - 1) : s[k] # "/"
         IN  <<SubSeq(s, 1, i - 1), DropFirst(s, i)>>

\* path_parts = gcs_path.replace("gs://", "").split("/", 1)
GcsPathParts(gcs_path) == SplitOnce(RemoveAll(gcs_path, Scheme))

GcsBucket(gcs_path) == GcsPathParts(gcs_path)[1]

\* prefix = path_parts[1] if len(path_parts) > 1 else "", then a trailing
\* "/" is ensured on a non-empty prefix
GcsPrefix(gcs_path) ==
    LET parts == GcsPathParts(gcs_path)
        prefix == IF Len(parts) > 1 THEN parts[2] ELSE <<>>
    IN  IF prefix # <<>> /\ ~EndsWithSlash(prefix) THEN Append(prefix, "/") ELSE prefix

\* cache_dir = "/tmp/models"; tempfile.mkdtemp(prefix="model_")
CacheDir == [root |-> "/", parts |-> << <<"tmp">>, <<"models">> >>]
TempDir == [root |-> "/", parts |-> << <<"tmp">>, <<"model_">> >>]

\* Path(local_dir) / relative_path, relative_path = blob.name[len(prefix):]
GenericLocalFile(name, prefix, local_dir) ==
    JoinPath(local_dir, Path(DropFirst(name, Len(prefix))))

RECURSIVE GenericLoop(_, _, _, _)
GenericLoop(blobs, disk, prefix, local_dir) ==
    IF blobs = <<>> THEN Returned(disk)
    ELSE IF EndsWithSlash(Head(blobs))
    THEN GenericLoop(Tail(blobs), disk, prefix, local_dir)
    ELSE LET r == StoreBlob(disk, GenericLocalFile(Head(blobs), prefix, local_dir), Head(blobs))
         IN  IF r.status = "raised" THEN r
             ELSE GenericLoop(Tail(blobs), r.fs, prefix, local_dir)

\* the directory downloaded into: the one given, or a fresh temporary one
GenericDir(local_dir) == IF local_dir = None THEN TempDir ELSE local_dir[1]

\* download_model_from_gcs(gcs_path, local_dir)
GenericDownload(objs, gcs_path, local_dir, disk) ==
    IF ~StartsWith(gcs_path, Scheme) THEN Raised("ValueError", disk)
    ELSE IF MkdirError(disk, GenericDir(local_dir)) # NoValue
    THEN Raised(MkdirError(disk, GenericDir(local_dir)), disk)
    ELSE IF GcsBucket(gcs_path) # BucketName THEN Raised("NotFound", Mkdir(disk, GenericDir(local_dir)))
    ELSE GenericLoop(ListBlobs(objs, GcsPrefix(gcs_path)), Mkdir(disk, GenericDir(local_dir)),
                     GcsPrefix(gcs_path), GenericDir(local_dir))

\* the URIs passed: a bucket, optionally "/" and a prefix, with the scheme
\* and without it
UriBodies == BucketNames \cup {b \o <<"/">> \o q : b \in BucketNames, q \in Strs(MaxLen)}
Uris == UriBodies \cup {Scheme \o u : u \in UriBodies}

InitGeneric ==
    /\ objects \in BucketContents
    /\ fs = EmptyFs
    /\ args \in [fn : {"gcs_loader.download_model_from_gcs"}, gcs_path : Uris,
                 local_dir : {None, Some(CacheDir)}]
    /\ ret = NoRet
    /\ config = [bucket_name |-> BucketName, model_path |-> <<>>]
    /\ lifespan = "not_run"
    /\ model = None
    /\ model_version = None
    /\ req = NoRequest
    /\ resp = NoResponse
    /\ NoScript

DownloadGeneric ==
    /\ args.fn = "gcs_loader.download_model_from_gcs"
    /\ ret = NoRet
    /\ LET d == GenericDownload(objects, args.gcs_path, args.local_dir, fs)
       IN  /\ fs' = d.fs
           /\ ret' = [status |-> d.status, error |-> d.error]
    /\ UNCHANGED <<objects, config, globalVars, req, resp, args, scriptVars>>

NextGeneric == DownloadGeneric

SpecGeneric == InitGeneric /\ [][NextGeneric]_vars

\* C10: for any gs:// URI the call returns, having written every object
\* under the derived prefix whose name does not end in "/" to
\* local_dir/<name relative to the prefix>, and no entry for a directory
\* marker.
C10_EveryObjectUnderLocalDir ==
    (/\ args.fn = "gcs_loader.download_model_from_gcs"
     /\ StartsWith(args.gcs_path, Scheme)
     /\ GcsBucket(args.gcs_path) = BucketName
     /\ ret # NoRet)
        => /\ ret.status = "returned"
           /\ \A n \in objects :
                 StartsWith(n, GcsPrefix(args.gcs_path))
                    => IF EndsWithSlash(n) THEN \A f \in fs.files : f.blob # n
                       ELSE \E f \in fs.files :
                               /\ f.blob = n
                               /\ f.path = Under(GenericDir(args.local_dir),
                                                 DropFirst(n, Len(GcsPrefix(args.gcs_path))))

(***************************************************************************)
(* Model artifacts: the direct publisher (trainer/data_loader.py) and the  *)
(* local model cache the boosted-tree loader downloads into.               *)
(***************************************************************************)
\* most publisher and loader calls made one after the other
MaxOps == 3
\* longest publish / download path, in characters
MaxPathLen == 2

\* the serialized models a training run may produce
Models == {"m1", "m2"}

\* a local file remembers the object it came from and the content that
\* object had when it was downloaded
Stamp(name, content) == name \o <<"@", content>>
IsStamped(blob) == Len(blob) >= 2 /\ blob[Len(blob) - 1] = "@"
BlobName(blob) == IF IsStamped(blob) THEN SubSeq(blob, 1, Len(blob) - 2) ELSE blob
BlobContent(blob) == blob[Len(blob)]

\* blob.download_to_filename writes the content the object has now: the
\* files a download wrote are stamped with it
StampWritten(before, after, contents) ==
    [after EXCEPT !.files =
        {IF f \in before.files THEN f
         ELSE [path |-> f.path, blob |-> Stamp(f.blob, contents[f.blob])] : f \in @}]

\* bucket.blob(f"{gcs_path}/model.json")
PublishedName(gcs_path) == gcs_path \o <<"/">> \o ModelJson

\* upload_model_to_gcs(model, bucket_name, gcs_path): the bucket after the
\* upload, or NotFound when the bucket does not exist
UploadDirect(objs, contents, m, bucket_name, gcs_path) ==
    IF bucket_name # BucketName
    THEN [status |-> "raised", error |-> "NotFound", objects |-> objs, data |-> contents]
    ELSE [status |-> "returned", error |-> NoValue,
          objects |-> objs \cup {PublishedName(gcs_path)},
          data |-> [n \in objs \cup {PublishedName(gcs_path)} |->
                       IF n = PublishedName(gcs_path) THEN m ELSE contents[n]]]

ArtifactPaths == Strs(MaxPathLen)
ArtifactBuckets == SubsetsUpTo({<<"a", "/", "model.json">>, <<"a", "a">>}, 2)

\* one entry of the trace: the call made, its arguments and its outcome
Op(name, bucket_name, path, m, status, content) ==
    [op |-> name, bucket_name |-> bucket_name, path |-> path, model |-> m,
     status |-> status, content |-> content]

InitArtifacts ==
    /\ objects \in ArtifactBuckets
    /\ data = [n \in objects |-> OldContent]
    /\ fs = EmptyFs
    /\ pc = "idle"
    /\ trace = <<>>
    /\ threads = <<>>
    /\ args = NoArgs
    /\ ret = NoRet
    /\ config \in {[bucket_name |-> b, model_path |-> <<>>] : b \in BucketNames}
    /\ lifespan = "not_run"
    /\ model = None
    /\ model_version = None
    /\ req = NoRequest
    /\ resp = NoResponse

\* a training run publishes its model: upload_model_to_gcs(model, bucket, path)
PublishDirect ==
    /\ Len(trace) < MaxOps
    /\ \E m \in Models, p \in ArtifactPaths :
          LET u == UploadDirect(objects, data, m, config.bucket_name, p)
          IN  /\ objects' = u.objects
              /\ data' = u.data
              /\ trace' = Append(trace, Op("upload", config.bucket_name, p, m, u.status, <<>>))
    /\ UNCHANGED <<fs, config, globalVars, req, resp, callVars, pc, threads>>

\* download_model_from_gcs(bucket, path) into the default local directory
DownloadCache ==
    /\ Len(trace) < MaxOps
    /\ \E p \in ArtifactPaths :
          LET d == BoostedDownload(objects, config.bucket_name, p, ModelDir, fs)
          IN  /\ fs' = StampWritten(fs, d.fs, data)
              /\ trace' = Append(trace, Op("download", config.bucket_name, p, NoValue, d.status, <<>>))
    /\ UNCHANGED <<objects, data, config, globalVars, req, resp, callVars, pc, threads>>

\* load_model(local_dir)
LoadCache ==
    /\ Len(trace) < MaxOps
    /\ LET l == LoadModel(fs, ModelDir)
       IN  trace' = Append(trace, Op("load", <<>>, <<>>, NoValue, l.status,
                                      IF l.status = "returned" THEN l.model[1].booster ELSE <<>>))
    /\ UNCHANGED <<storageVars, data, config, globalVars, req, resp, callVars, pc, threads>>

NextArtifacts == PublishDirect \/ DownloadCache \/ LoadCache

SpecArtifacts == InitArtifacts /\ [][NextArtifacts]_vars

\* C11: after upload_model_to_gcs(model, bucket, path) succeeded, the
\* download from the same bucket and path and the load that follows both
\* succeed, and the model loaded is the one published.
C11_RoundTripLoadsPublished ==
    \A i \in 1..(Len(trace) - 2) :
        (/\ trace[i].op = "upload" /\ trace[i].status = "returned"
         /\ trace[i + 1].op = "download"
         /\ trace[i + 1].bucket_name = trace[i].bucket_name
         /\ trace[i + 1].path = trace[i].path
         /\ trace[i + 2].op = "load")
            => /\ trace[i + 1].status = "returned"
               /\ trace[i + 2].status = "returned"
               /\ trace[i + 2].content = Stamp(PublishedName(trace[i].path), trace[i].model)

\* C14: an object once written is never overwritten by a later publish: it
\* stays in the bucket with the content it was written with.
C14_PublishedObjectsReadOnly ==
    [][\A n \in objects : n \in objects' /\ data'[n] = data[n]]_vars

\* the object a local file of the cache must be a copy of, after a download
\* from model_path
Mirrors(blob, model_path) ==
    \E n \in objects : /\ StartsWith(n, model_path)
                       /\ ~EndsWithSlash(n)
                       /\ blob = Stamp(n, data[n])

\* C17: after a download that returned, every file of the local model
\* directory is the copy of an object now under the prefix, and a load_model
\* that follows returns only such a copy (it raises when there is none).
C17_CacheMirrorsBucket ==
    /\ (/\ Len(trace) >= 1
        /\ trace[Len(trace)].op = "download"
        /\ trace[Len(trace)].status = "returned")
          => \A f \in fs.files : Mirrors(f.blob, trace[Len(trace)].path)
    /\ (/\ Len(trace) >= 2
        /\ trace[Len(trace)].op = "load"
        /\ trace[Len(trace)].status = "returned"
        /\ trace[Len(trace) - 1].op = "download"
        /\ trace[Len(trace) - 1].status = "returned")
          => Mirrors(trace[Len(trace)].content, trace[Len(trace) - 1].path)

(***************************************************************************)
(* scripts/upload_model_to_gcs.py: the standalone upload script.  The      *)
(* registry gives, for each alias, the files of the model version it       *)
(* resolves to; an object written by the script has the alias as content.  *)
(***************************************************************************)
ProductionUri == "Production"
LatestUri == "latest"

\* the files of a registered model version, relative to its directory
VersionFiles == {ModelJson, <<"a">>}
Registries == [{ProductionUri, LatestUri} -> (SUBSET VersionFiles) \ {{}}]

\* what a failing step raises; "except Exception" does not catch the second
ErrorKinds == {"Exception", "KeyboardInterrupt"}

\* blob_name = f"{gcs_path}/{relative_path}"
BlobNameOf(gcs_path, relative_path) == gcs_path \o <<"/">> \o relative_path

\* variant: the fallback asks for the Production alias again
FallbackUriProduction == ProductionUri

\* the model_uri of the except branch
FallbackUri == LatestUri

\* except Exception
Caught(error) == error = "Exception"

Attempt(uri, status, error) == [uri |-> uri, status |-> status, error |-> error]

\* the last attempt ends with this outcome
EndAttempt(status, error) ==
    [trace EXCEPT ![Len(trace)] = Attempt(@.uri, status, error)]

ScriptPaths == Strs(1)

InitUploadScript ==
    /\ objects \in ArtifactBuckets
    /\ data = [n \in objects |-> OldContent]
    /\ fs = EmptyFs
    /\ pc = "main"
    /\ trace = <<>>
    /\ threads = <<>>
    /\ args \in [fn : {"upload_model_to_gcs"}, registry : Registries, pending : {{}}]
    /\ ret = NoRet
    /\ config \in {[bucket_name |-> BucketName, model_path |-> p] : p \in ScriptPaths}
    /\ lifespan = "not_run"
    /\ model = None
    /\ model_version = None
    /\ req = NoRequest
    /\ resp = NoResponse

\* the call upload_model_to_gcs(uri, ...) raised: the try block of the first
\* call catches an Exception, anything else ends the script
RaiseFrom(error) ==
    /\ trace' = EndAttempt("raised", error)
    /\ IF Len(trace) = 1 /\ Caught(error)
       THEN /\ pc' = "except"
            /\ ret' = ret
       ELSE /\ pc' = "done"
            /\ ret' = [status |-> "raised", error |-> error]

\* upload_model_to_gcs(uri, bucket, gcs_path) is entered:
\* mlflow.artifacts.download_artifacts gives the files of the version or raises
Enter(uri) ==
    \/ /\ trace' = Append(trace, Attempt(uri, "running", NoValue))
       /\ pc' = "rglob"
       /\ args' = [args EXCEPT !.pending = args.registry[uri]]
       /\ ret' = ret
    \/ \E e \in ErrorKinds :
          /\ trace' = Append(trace, Attempt(uri, "raised", e))
          /\ args' = args
          /\ IF trace = <<>> /\ Caught(e)
             THEN pc' = "except" /\ ret' = ret
             ELSE pc' = "done" /\ ret' = [status |-> "raised", error |-> e]

\* line 64: the first call, inside the try block
TryProduction ==
    /\ pc = "main"
    /\ Enter(ProductionUri)
    /\ UNCHANGED <<storageVars, data, config, globalVars, req, resp, threads>>

\* lines 65-70: the except branch calls again with the fallback alias
ExceptFallback ==
    /\ pc = "except"
    /\ Enter(FallbackUri)
    /\ UNCHANGED <<storageVars, data, config, globalVars, req, resp, threads>>

\* lines 37-46: one file of the loop is uploaded, in the order rglob gives;
\* the upload may raise
UploadFile ==
    /\ pc = "rglob"
    /\ \E f \in args.pending :
          LET name == BlobNameOf(config.model_path, f)
          IN  \/ /\ objects' = objects \cup {name}
                 /\ data' = [n \in objects \cup {name} |->
                                IF n = name THEN trace[Len(trace)].uri ELSE data[n]]
                 /\ args' = [args EXCEPT !.pending = @ \ {f}]
                 /\ UNCHANGED <<pc, trace, ret>>
              \/ /\ \E e \in ErrorKinds : RaiseFrom(e)
                 /\ UNCHANGED <<objects, data, args>>
    /\ UNCHANGED <<fs, config, globalVars, req, resp, threads>>

\* line 48: the loop is over and the call returns; the script ends
UploadReturns ==
    /\ pc = "rglob"
    /\ args.pending = {}
    /\ trace' = EndAttempt("returned", NoValue)
    /\ pc' = "done"
    /\ ret' = [status |-> "returned", error |-> NoValue]
    /\ UNCHANGED <<storageVars, data, config, globalVars, req, resp, args, threads>>

NextUploadScript == TryProduction \/ ExceptFallback \/ UploadFile \/ UploadReturns

SpecUploadScript == InitUploadScript /\ [][NextUploadScript]_vars

\* C12: the script makes at most two attempts; the first is for the
\* Production alias; the second is for "latest" and is made only after the
\* first raised, exactly once when the first raised an Exception; when the
\* second raises the script ends with that error.
C12_AtMostTwoAttempts ==
    /\ Len(trace) <= 2
    /\ Len(trace) >= 1 => trace[1].uri = ProductionUri
    /\ Len(trace) = 2 => /\ trace[2].uri = LatestUri
                         /\ trace[1].status = "raised"
    /\ (pc = "done" /\ trace[1].status = "raised" /\ trace[1].error = "Exception")
          => Len(trace) = 2
    /\ (Len(trace) = 2 /\ trace[2].status = "raised")
          => /\ pc = "done"
             /\ ret = [status |-> "raised", error |-> trace[2].error]

C12_Witness ==
    /\ pc = "done"
    /\ Len(trace) = 2
    /\ trace[1].error = "Exception"
    /\ trace[2].status = "raised"
    /\ \E n \in objects : data[n] = LatestUri

\* C19: when the script ends normally, the objects it wrote all come from
\* one model version.
C19_SingleVersionWritten ==
    (pc = "done" /\ ret.status = "returned")
        => \A n1, n2 \in objects :
              (data[n1] # OldContent /\ data[n2] # OldContent) => data[n1] = data[n2]

(***************************************************************************)
(* pipeline/deploy_pytorch_gpu.py: deploy.  The compiled pipeline          *)
(* definition is a file of the working directory.                          *)
(***************************************************************************)
DEFAULT_PYTORCH_GPU_IMAGE ==
    "us-central1-docker.pkg.dev/lily-demo-ml/churn-pipeline/pytorch-trainer:latest"

\* pipeline_file = "pytorch_churn_pipeline.json"
pipeline_file == [root |-> "", parts |-> << <<"pytorch_churn_pipeline.json">> >>]

\* os.remove(path)
RemoveFile(disk, p) == [disk EXCEPT !.files = {f \in @ : f.path # p}]

ProjectIds == {"p1", "p2"}
DeployArgs ==
    [fn : {"deploy"}, project_id : ProjectIds, bucket : {None, Some("b")},
     image_uri : {None, Some("img")}, run_local : BOOLEAN]

\* the working directory before the call: with or without a file left by
\* an earlier invocation
DeployDisks == {EmptyFs, WriteFile(EmptyFs, pipeline_file, <<"pipeline", "img">>)}

InitDeploy ==
    /\ objects = {}
    /\ data = <<>>
    /\ fs \in DeployDisks
    /\ pc = "deploy"
    /\ trace = <<>>
    /\ threads = <<>>
    /\ args \in DeployArgs
    /\ ret = NoRet
    /\ config = [bucket_name |-> BucketName, model_path |-> <<>>]
    /\ lifespan = "not_run"
    /\ model = None
    /\ model_version = None
    /\ req = NoRequest
    /\ resp = NoResponse

\* the call ends by raising
DeployRaises(step) ==
    /\ pc' = "done"
    /\ ret' = [status |-> "raised", error |-> step]

\* lines 109-121: the default image, then the pipeline is compiled into
\* pipeline_file
DeployCompile ==
    /\ pc = "deploy"
    /\ LET image == IF args.image_uri = None THEN DEFAULT_PYTORCH_GPU_IMAGE
                    ELSE args.image_uri[1]
       IN  /\ args' = [args EXCEPT !.image_uri = Some(image)]
           /\ trace' = Append(trace, "compile")
           /\ \/ /\ fs' = WriteFile(fs, pipeline_file, <<"pipeline", image>>)
                 /\ pc' = "compiled"
                 /\ ret' = ret
              \/ /\ fs' = fs
                 /\ DeployRaises("compile")
    /\ UNCHANGED <<objects, data, config, globalVars, req, resp, threads>>

\* lines 123-125: local mode returns at once
DeployLocal ==
    /\ pc = "compiled"
    /\ args.run_local
    /\ pc' = "done"
    /\ ret' = [status |-> "returned", error |-> NoValue]
    /\ UNCHANGED <<storageVars, data, config, globalVars, req, resp, args, trace, threads>>

\* lines 128-144: the default bucket, aiplatform.init and the PipelineJob
DeployJob ==
    /\ pc = "compiled"
    /\ ~args.run_local
    /\ args' = [args EXCEPT !.bucket =
                   IF @ = None THEN Some(args.project_id \o "-pipeline") ELSE @]
    /\ trace' = Append(trace, "job")
    /\ \/ pc' = "job" /\ ret' = ret
       \/ DeployRaises("job")
    /\ UNCHANGED <<storageVars, data, config, globalVars, req, resp, threads>>

\* line 147: job.submit
DeploySubmit ==
    /\ pc = "job"
    /\ trace' = Append(trace, "submit")
    /\ \/ pc' = "submitted" /\ ret' = ret
       \/ DeployRaises("submit")
    /\ UNCHANGED <<storageVars, data, config, globalVars, req, resp, args, threads>>

\* lines 157-159: the compiled file is removed when it exists, and deploy
\* returns
DeployCleanup ==
    /\ pc = "submitted"
    /\ fs' = IF IsFile(fs, pipeline_file) THEN RemoveFile(fs, pipeline_file) ELSE fs
    /\ trace' = Append(trace, "cleanup")
    /\ pc' = "done"
    /\ ret' = [status |-> "returned", error |-> NoValue]
    /\ UNCHANGED <<objects, data, config, globalVars, req, resp, args, threads>>

NextDeploy == DeployCompile \/ DeployLocal \/ DeployJob \/ DeploySubmit \/ DeployCleanup

SpecDeploy == InitDeploy /\ [][NextDeploy]_vars

\* the invocation wrote the compiled pipeline definition
WroteCompiled ==
    /\ Len(trace) >= 1
    /\ ~(Len(trace) = 1 /\ ret = [status |-> "raised", error |-> "compile"])

\* C13: once a deploy that wrote pytorch_churn_pipeline.json has returned or
\* raised, the file does not exist, in local mode and whether the
\* submission succeeded or failed.
C13_CompiledFileDeleted ==
    (pc = "done" /\ WroteCompiled) => ~IsFile(fs, pipeline_file)

(***************************************************************************)
(* inference/main.py under concurrent requests: the handlers are plain     *)
(* functions, run on worker threads; each read of a global is a step.      *)
(***************************************************************************)
\* requests handled at the same time
MaxThreads == 2

Endpoints == {"/", "/health", "/predict", "/predict/batch"}

IdleThread == [endpoint |-> "idle", at |-> "idle", seen_model |-> None, seen_version |-> None]

\* variant: requests are also accepted while the startup event runs
AcceptingDuringStartup == lifespan # "failed"

\* requests are accepted once the startup event has completed (or when the
\* application is driven without its lifespan)
Accepting == lifespan \in {"not_run", "ok"}

InitConcurrent ==
    /\ objects \in ServiceBuckets
    /\ data = [n \in objects |-> OldContent]
    /\ fs = EmptyFs
    /\ config \in ServiceConfigs
    /\ lifespan = "not_run"
    /\ model = None
    /\ model_version = None
    /\ req = NoRequest
    /\ resp = NoResponse
    /\ pc = "idle"
    /\ trace = <<>>
    /\ threads = [t \in 1..MaxThreads |-> IdleThread]
    /\ args = NoArgs
    /\ ret = NoRet

\* startup_event, lines 29-35: download, load, model = ...; the exception
\* of a failed download or load is re-raised before anything is assigned
StartupLoad ==
    /\ lifespan = "not_run"
    /\ \A t \in 1..MaxThreads : threads[t].at = "idle"
    /\ LET d == BoostedDownload(objects, config.bucket_name, config.model_path, ModelDir, fs)
           l == LoadModel(d.fs, ModelDir)
           loaded == d.status = "returned" /\ l.status = "returned"
       IN  /\ fs' = d.fs
           /\ lifespan' = IF loaded THEN "running" ELSE StartupStatus(loaded)
           /\ model' = IF loaded THEN l.model ELSE model
    /\ UNCHANGED <<objects, config, model_version, req, resp, callVars, scriptVars>>

\* startup_event, line 36: model_version = model_path.split("/")[-1]
StartupVersion ==
    /\ lifespan = "running"
    /\ model_version' = Some(LastSegment(config.model_path))
    /\ lifespan' = StartupStatus(TRUE)
    /\ UNCHANGED <<storageVars, config, model, req, resp, callVars, scriptVars>>

\* a request arrives and its handler starts on a worker thread
Accept(t) ==
    /\ Accepting
    /\ threads[t].at = "idle"
    /\ \E e \in Endpoints :
          threads' = [threads EXCEPT ![t] =
              [IdleThread EXCEPT !.endpoint = e,
                                 !.at = IF e = "/" THEN "respond" ELSE "read_model"]]
    /\ UNCHANGED <<storageVars, config, globalVars, req, resp, callVars, data, pc, trace>>

\* health line 55, predict line 64, predict_batch line 89: the handler reads
\* model; predict and predict_batch answer 503 when it is None, and may
\* answer 500 when scoring fails
ReadModel(t) ==
    /\ threads[t].at = "read_model"
    /\ \E scored \in BOOLEAN :
          threads' = [threads EXCEPT ![t].seen_model = model,
              ![t].at = IF threads[t].endpoint = "/health" THEN "read_version"
                        ELSE IF model = None \/ ~scored THEN "respond_error"
                        ELSE "read_version"]
    /\ UNCHANGED <<storageVars, config, globalVars, req, resp, callVars, data, pc, trace>>

\* health line 57, predict line 78, predict_batch line 105: the handler
\* reads model_version
ReadVersion(t) ==
    /\ threads[t].at = "read_version"
    /\ threads' = [threads EXCEPT ![t].seen_version = model_version, ![t].at = "respond"]
    /\ UNCHANGED <<storageVars, config, globalVars, req, resp, callVars, data, pc, trace>>

\* the response is sent and the thread is free again
Respond(t) ==
    /\ threads[t].at \in {"respond", "respond_error"}
    /\ threads' = [threads EXCEPT ![t] = IdleThread]
    /\ resp' = IF threads[t].at = "respond"
               THEN HttpOk(threads[t].seen_version, threads[t].seen_model # None)
               ELSE IF threads[t].seen_model = None
               THEN HttpError(503, "Model not loaded", FALSE)
               ELSE HttpError(500, "error", TRUE)
    /\ UNCHANGED <<storageVars, config, globalVars, req, callVars, data, pc, trace>>

NextConcurrent ==
    \/ StartupLoad
    \/ StartupVersion
    \/ \E t \in 1..MaxThreads : Accept(t)
    \/ \E t \in 1..MaxThreads : ReadModel(t)
    \/ \E t \in 1..MaxThreads : ReadVersion(t)
    \/ \E t \in 1..MaxThreads : Respond(t)

SpecConcurrent == InitConcurrent /\ [][NextConcurrent]_vars

\* the request of thread t has read both globals
ObservedBoth(t) == threads[t].at = "respond" /\ threads[t].endpoint # "/"

\* C15: model and model_version are each written once, from None, by the
\* startup event and by nothing else, and a request that has read a loaded
\* model reads its version label set.
C15_GlobalsWrittenOnceAtStartup ==
    /\ [][/\ model' # model => (model = None /\ lifespan = "not_run")
          /\ model_version' # model_version =>
                (model_version = None /\ lifespan = "running")]_vars
    /\ [](\A t \in 1..MaxThreads :
            (ObservedBoth(t) /\ threads[t].seen_model # None)
                => threads[t].seen_version # None)

C15_Witness ==
    /\ lifespan = "ok"
    /\ ObservedBoth(1) /\ threads[1].seen_model # None
    /\ threads[2].at = "read_version"

(***************************************************************************)
(* trainer/main.py: main and the entry point.  The trace holds the steps   *)
(* of main that were started, each with the state of the tracked run when  *)
(* it started and its outcome.                                             *)
(***************************************************************************)
\* variant: the model is evaluated before it is published
TrainerStepsEvaluateFirst ==
    <<"load_config", "start_run", "ingest", "split", "class_weight", "matrices",
      "tune", "train", "evaluate", "publish", "feature_importance", "register">>

\* the calls of main, in the order of its statements
TrainerSteps ==
    <<"load_config", "start_run", "ingest", "split", "class_weight", "matrices",
      "tune", "train", "publish", "evaluate", "feature_importance", "register">>

\* the steps that only compute or log
ComputeSteps ==
    {"ingest", "split", "class_weight", "matrices", "tune", "train", "evaluate",
     "feature_importance", "register"}

\* where main stands after the n-th step
StepAfter(n) == IF n < Len(TrainerSteps) THEN TrainerSteps[n + 1] ELSE "end_run"

\* main has no return statement: it returns None
MainReturn == None

\* model, metrics = <value>: the value must be a pair
Unpacks(value) == Len(value) = 2

Step(name, run, status) == [step |-> name, run |-> run, status |-> status]

InitTrainer ==
    /\ objects \in ArtifactBuckets
    /\ data = [n \in objects |-> OldContent]
    /\ fs = EmptyFs
    /\ pc = StepAfter(0)
    /\ trace = <<>>
    /\ threads = <<>>
    /\ args \in [fn : {"main"}, model : Models, run : {"none"}, printed : {FALSE}]
    /\ ret = NoRet
    /\ config \in {[bucket_name |-> b, model_path |-> p] : b \in BucketNames, p \in ScriptPaths}
    /\ lifespan = "not_run"
    /\ model = None
    /\ model_version = None
    /\ req = NoRequest
    /\ resp = NoResponse

\* the step under way returned: main goes on with the next statement
StepReturns(name) ==
    /\ trace' = Append(trace, Step(name, args.run, "ok"))
    /\ pc' = StepAfter(Len(trace) + 1)
    /\ ret' = ret

\* the step under way raised: the with block ends the run as FAILED when it
\* is active, main raises and so does line 105
StepRaises(name) ==
    /\ trace' = Append(trace, Step(name, args.run, "raised"))
    /\ pc' = "exit"
    /\ ret' = [status |-> "raised", error |-> name]

\* the run after a step raised
RunAfterRaise == IF args.run = "active" THEN "FAILED" ELSE args.run

\* line 42: config = load_config()
TrainLoadConfig ==
    /\ pc = "load_config"
    /\ \/ StepReturns(pc) /\ args' = args
       \/ StepRaises(pc) /\ args' = [args EXCEPT !.run = RunAfterRaise]
    /\ UNCHANGED <<storageVars, data, config, globalVars, req, resp, threads>>

\* lines 52-54: set_experiment and mlflow.start_run
TrainStartRun ==
    /\ pc = "start_run"
    /\ \/ StepReturns(pc) /\ args' = [args EXCEPT !.run = "active"]
       \/ StepRaises(pc) /\ args' = [args EXCEPT !.run = RunAfterRaise]
    /\ UNCHANGED <<storageVars, data, config, globalVars, req, resp, threads>>

\* lines 57-82 and 91-99: a step that computes or logs
TrainStep ==
    /\ pc \in ComputeSteps
    /\ \/ StepReturns(pc) /\ args' = args
       \/ StepRaises(pc) /\ args' = [args EXCEPT !.run = RunAfterRaise]
    /\ UNCHANGED <<storageVars, data, config, globalVars, req, resp, threads>>

\* lines 85-88: upload_model_to_gcs(model, gcs_bucket, gcs_model_path)
TrainPublish ==
    /\ pc = "publish"
    /\ LET u == UploadDirect(objects, data, args.model, config.bucket_name, config.model_path)
       IN  /\ objects' = u.objects
           /\ data' = u.data
           /\ IF u.status = "returned"
              THEN StepReturns(pc) /\ args' = args
              ELSE StepRaises(pc) /\ args' = [args EXCEPT !.run = RunAfterRaise]
    /\ UNCHANGED <<fs, config, globalVars, req, resp, threads>>

\* line 101 and the end of the with block: the run is finished and main
\* returns
TrainEndRun ==
    /\ pc = "end_run"
    /\ args' = [args EXCEPT !.run = "FINISHED"]
    /\ pc' = "main_returned"
    /\ UNCHANGED <<storageVars, data, config, globalVars, req, resp, ret, trace, threads>>

\* lines 105-106: model, metrics = main(), then the final message
TrainEntryPoint ==
    /\ pc = "main_returned"
    /\ pc' = "exit"
    /\ IF Unpacks(MainReturn)
       THEN /\ args' = [args EXCEPT !.printed = TRUE]
            /\ ret' = [status |-> "returned", error |-> NoValue]
       ELSE /\ args' = args
            /\ ret' = [status |-> "raised", error |-> "TypeError"]
    /\ UNCHANGED <<storageVars, data, config, globalVars, req, resp, trace, threads>>

NextTrainer ==
    \/ TrainLoadConfig
    \/ TrainStartRun
    \/ TrainStep
    \/ TrainPublish
    \/ TrainEndRun
    \/ TrainEntryPoint

SpecTrainer == InitTrainer /\ [][NextTrainer]_vars

\* the order the steps are claimed to run in
C16_ClaimedOrder ==
    <<"start_run", "load_config", "ingest", "split", "class_weight", "matrices",
      "tune", "train", "publish", "evaluate", "feature_importance", "register">>

\* C16 as stated: the steps run at most once each in the order start tracked
\* run, load configuration, ingest, ..., register; every step from
\* configuration loading on runs inside the tracked run; after a failed
\* step no later step runs.
C16_StepsInClaimedOrder ==
    /\ Len(trace) <= Len(C16_ClaimedOrder)
    /\ \A i \in 1..Len(trace) :
          /\ trace[i].step = C16_ClaimedOrder[i]
          /\ i >= 2 => trace[i].run = "active"
          /\ i < Len(trace) => trace[i].status = "ok"

\* the order with configuration loading first
C16_CodeOrder ==
    <<"load_config", "start_run", "ingest", "split", "class_weight", "matrices",
      "tune", "train", "publish", "evaluate", "feature_importance", "register">>

\* C16, amended: the steps run at most once each in the order load
\* configuration, start tracked run, ingest, split, class weight, matrices,
\* tune, train, publish, evaluate, feature importance, register; the
\* configuration is loaded before the run is started and every step from
\* ingestion to registration runs inside the single tracked run; a failed
\* step is the last step, and it ends the process with its error.
C16_StepsInCodeOrder ==
    /\ Len(trace) <= Len(C16_CodeOrder)
    /\ \A i \in 1..Len(trace) :
          /\ trace[i].step = C16_CodeOrder[i]
          /\ trace[i].run = IF i <= 2 THEN "none" ELSE "active"
          /\ i < Len(trace) => trace[i].status = "ok"
    /\ (Len(trace) >= 1 /\ trace[Len(trace)].status = "raised")
          => /\ pc = "exit"
             /\ ret = [status |-> "raised", error |-> trace[Len(trace)].step]
             /\ args.run = IF Len(trace) <= 2 THEN "none" ELSE "FAILED"

C16_Witness ==
    /\ pc = "exit"
    /\ Len(trace) = 9
    /\ trace[9].step = "publish"
    /\ trace[9].status = "raised"

\* every step of main through the registration succeeded
AllStepsSucceeded ==
    /\ Len(trace) = Len(TrainerSteps)
    /\ \A i \in 1..Len(trace) : trace[i].status = "ok"

\* C18: the entry point ends with an error only if a step failed: when
\* every step through the registration succeeded it ends normally, having
\* printed "Pipeline complete!".
C18_ErrorExitOnlyOnFailedStep ==
    (pc = "exit" /\ AllStepsSucceeded)
        => /\ ret.status = "returned"
           /\ args.printed

====
